---- MODULE Spec2Model ----
(***************************************************************************)
(* Model of uplift/tree/_classes.py: BaseDecisionTree.fit and .predict,    *)
(* with the tree builders, splitter and criterion it drives.               *)
(*                                                                         *)
(* Hyper-parameters are plain attributes of the estimator; fit reads them  *)
(* at call time.  Optional values are tagged records: NoneV, IntV(n),       *)
(* StrV(s), FloatV(num) (the fraction num / FracDen).                      *)
(***************************************************************************)
EXTENDS Integers, Sequences, FiniteSets, TLC

VARIABLES params, self, rng, last, fitted

vars == <<params, self, rng, last, fitted>>

-----------------------------------------------------------------------------
(* Bounds *)

MaxSamples == 4
MaxFeatures == 8
MaxLeafMin == 2
MaxSplitMin == 5
MaxLeafNodes == 2
MaxSeed == 1

FracDen == 2
RngMod == 4

(* Program constants *)

\* np.iinfo(np.int32).max
INT32_MAX == 2147483647

-----------------------------------------------------------------------------
(* Values *)

NoneV == [t |-> "None"]
IntV(n) == [t |-> "int", v |-> n]
StrV(s) == [t |-> "str", v |-> s]
FloatV(num) == [t |-> "float", v |-> num]

Max(a, b) == IF a >= b THEN a ELSE b

\* The element of a one-element set
Only(S) == CHOOSE x \in S : TRUE

\* int(np.sqrt(n)) for n >= 0
isqrt(n) == CHOOSE r \in 0..n : r * r <= n /\ (r + 1) * (r + 1) > n

RECURSIVE pow2(_)
pow2(k) == IF k = 0 THEN 1 ELSE 2 * pow2(k - 1)

\* int(np.log2(n)) for n >= 1
ilog2(n) == CHOOSE k \in 0..n : pow2(k) <= n /\ n < pow2(k + 1)

_criteria_clf == {"delta_delta_p", "kl_divergence", "euclidean_divergence",
                  "chi2_divergence"}
_criteria_reg == {"delta_delta_p"}
_splitters == {"best", "fast"}

-----------------------------------------------------------------------------
(* fit: configuration, lines 53-118 *)

\* check_scalar(x, name, int, min_val=1) returns x iff x >= min_val
check_scalar(x, min_val) == x >= min_val

\* line 55
max_depth(p) ==
    IF p.max_depth.t = "None" THEN INT32_MAX ELSE p.max_depth.v

\* line 56
max_leaf_nodes(p) ==
    IF p.max_leaf_nodes.t = "None" THEN -1 ELSE p.max_leaf_nodes.v

\* lines 62-65 and 66-69: the values check_scalar returns
min_samples_leaf_treated(p) == p.min_samples_leaf_treated

min_samples_leaf_control(p) == p.min_samples_leaf_control

\* lines 70-77
min_samples_leaf(p) ==
    IF p.min_samples_leaf.t = "None"
    THEN p.min_samples_leaf_treated + p.min_samples_leaf_control
    ELSE p.min_samples_leaf.v

\* only the treated minimum compared
min_samples_leaf_invalid_treated_only(p) ==
    min_samples_leaf(p) < min_samples_leaf_treated(p)

\* lines 78-80: the condition under which fit raises
min_samples_leaf_invalid(p) ==
    \/ min_samples_leaf(p) < min_samples_leaf_treated(p)
    \/ min_samples_leaf(p) < min_samples_leaf_control(p)

\* floored at min_samples_leaf, not at twice it
min_samples_split_single(p) ==
    Max(p.min_samples_split, min_samples_leaf(p))

\* line 82
min_samples_split(p) ==
    Max(p.min_samples_split, 2 * min_samples_leaf(p))

\* "auto" taken as "sqrt" for every estimator
max_features_auto_sqrt(p, n_features_in_) ==
    LET mf == p.max_features IN
    IF mf.t = "str" THEN
        IF mf.v = "log2" THEN Max(1, ilog2(n_features_in_))
        ELSE Max(1, isqrt(n_features_in_))
    ELSE IF mf.t = "None" THEN n_features_in_
    ELSE IF mf.t = "int" THEN mf.v
    ELSE IF mf.v > 0 THEN Max(1, (mf.v * n_features_in_) \div FracDen)
    ELSE 0

\* lines 84-104; only called when the string is one of the accepted names
max_features(p, n_features_in_) ==
    LET mf == p.max_features IN
    IF mf.t = "str" THEN
        IF mf.v = "auto" THEN
            IF p.is_classifier THEN Max(1, isqrt(n_features_in_))
            ELSE n_features_in_
        ELSE IF mf.v = "sqrt" THEN Max(1, isqrt(n_features_in_))
        ELSE Max(1, ilog2(n_features_in_))
    ELSE IF mf.t = "None" THEN n_features_in_
    ELSE IF mf.t = "int" THEN mf.v
    ELSE IF mf.v > 0 THEN Max(1, (mf.v * n_features_in_) \div FracDen)
    ELSE 0

\* lines 84-95: the string is none of "auto", "sqrt", "log2"
max_features_invalid(p) ==
    p.max_features.t = "str" /\ p.max_features.v \notin {"auto", "sqrt", "log2"}

\* lines 108-111: the registry the criterion name is looked up in
criteria(p) == IF p.is_classifier THEN _criteria_clf ELSE _criteria_reg

\* lines 58-113: the first exception raised before the Tree is created,
\* or "none"
fit_raises(p) ==
    IF ~check_scalar(p.min_samples_split, 1)
        THEN "ValueError(min_samples_split)"
    ELSE IF ~check_scalar(p.min_samples_leaf_treated, 1)
        THEN "ValueError(min_samples_leaf_treated)"
    ELSE IF ~check_scalar(p.min_samples_leaf_control, 1)
        THEN "ValueError(min_samples_leaf_control)"
    ELSE IF p.min_samples_leaf.t # "None" /\ ~check_scalar(p.min_samples_leaf.v, 1)
        THEN "ValueError(min_samples_leaf)"
    ELSE IF p.min_samples_leaf.t # "None" /\ min_samples_leaf_invalid(p)
        THEN "ValueError(Invalid value for min_samples_leaf)"
    ELSE IF max_features_invalid(p)
        THEN "ValueError(Invalid value for max_features)"
    ELSE IF p.criterion \notin criteria(p)
        THEN "KeyError(criterion)"
    ELSE IF p.splitter \notin _splitters
        THEN "KeyError(splitter)"
    ELSE "none"

-----------------------------------------------------------------------------
(* Training data: d = [X, y, w]; X a sequence of rows, y the outcome of     *)
(* each row, w its group (0 control, 1 treated).  A node's sample range is  *)
(* the set of row numbers it owns.                                          *)

n_samples(d) == Len(d.X)

n_features(d) == IF Len(d.X) = 0 THEN 0 ELSE Len(d.X[1])

\* _validate_data: at least one row, every row of the same non-zero width
valid_data(d) ==
    /\ Len(d.X) >= 1
    /\ n_features(d) >= 1
    /\ \A i \in 1..Len(d.X) : Len(d.X[i]) = n_features(d)

\* _validate_data(X, reset=False): the width fit recorded
valid_rows(X, n_features_in_) ==
    /\ Len(X) >= 1
    /\ \A i \in 1..Len(X) : Len(X[i]) = n_features_in_

-----------------------------------------------------------------------------
(* Criterion *)

\* Criterion.init: per-group count and outcome sum over the range R
group_stats(d, R) ==
    [n |-> Cardinality(R),
     n_control |-> Cardinality({i \in R : d.w[i] = 0}),
     n_treated |-> Cardinality({i \in R : d.w[i] = 1}),
     sum_control |-> Cardinality({i \in R : d.w[i] = 0 /\ d.y[i] = 1}),
     sum_treated |-> Cardinality({i \in R : d.w[i] = 1 /\ d.y[i] = 1})]

\* Criterion.node_impurity as a fraction <<num, den>>, den > 0.
\* delta_delta_p: squared difference of the treated and control means;
\* euclidean_divergence over the two outcome classes: twice that.
\* A group with no sample in the range contributes zero.
node_impurity(criterion, st) ==
    IF st.n_control = 0 \/ st.n_treated = 0 THEN <<0, 1>>
    ELSE LET diff == st.sum_treated * st.n_control - st.sum_control * st.n_treated
             den == (st.n_treated * st.n_control) * (st.n_treated * st.n_control)
         IN  IF criterion = "delta_delta_p" THEN <<diff * diff, den>>
             ELSE <<2 * diff * diff, den>>

\* n_left * impurity(left) + n_right * impurity(right), as a fraction
children_cost(criterion, stL, stR) ==
    LET l == node_impurity(criterion, stL)
        r == node_impurity(criterion, stR)
    IN  <<stL.n * l[1] * r[2] + stR.n * r[1] * l[2], l[2] * r[2]>>

\* node_impurity - weighted_avg(left, right), as a fraction
improvement(criterion, st, stL, stR) ==
    LET p == node_impurity(criterion, st)
        c == children_cost(criterion, stL, stR)
    IN  <<p[1] * c[2] * st.n - c[1] * p[2], p[2] * c[2] * st.n>>

frac_less(a, b) == a[1] * b[2] < b[1] * a[2]

-----------------------------------------------------------------------------
(* Random numbers.  A numpy generator is its state in 0..RngMod-1; the      *)
(* splitter keeps its own rand_r state, seeded by one draw from it.         *)

\* RandomState.randint: the value drawn and the generator's next state
randint(state) == [value |-> state, state |-> (state + 1) % RngMod]

\* the splitter's rand_r: next state
rand_r(r) == (r + 1) % RngMod

-----------------------------------------------------------------------------
(* Splitter.  s = [splitter, criterion, min_samples_leaf,                   *)
(* min_samples_leaf_treated, min_samples_leaf_control, max_features]        *)

is_constant(d, R, f) == Cardinality({d.X[i][f + 1] : i \in R}) <= 1

\* Partial Fisher-Yates draw of up to k features that are not constant in R;
\* st = [order, r]: the features drawn so far and the rand_r state
RECURSIVE draw_features(_, _, _, _, _, _)
draw_features(d, R, features, f_i, k, st0) ==
    Only({
        IF f_i = 0 \/ Len(st.order) >= k THEN st
        ELSE Only({
            draw_features(d, R,
                [features EXCEPT ![j] = features[f_i], ![f_i] = features[j]],
                f_i - 1, k,
                [order |-> IF is_constant(d, R, features[j]) THEN st.order
                           ELSE Append(st.order, features[j]),
                 r |-> rand_r(st.r)])
            : j \in {1 + (rand_r(st.r) % f_i)}})
        : st \in {st0}})

\* Twice the midpoints between adjacent distinct values of feature f in R
all_thresholds(d, R, f) ==
    Only({
        {q[1] + q[2] : q \in
            {q \in vals \X vals :
                q[1] < q[2] /\ ~\E c \in vals : q[1] < c /\ c < q[2]}}
        : vals \in {{d.X[i][f + 1] : i \in R}}})

\* BestSplitter scans every threshold; FastSplitter probes the median one
thresholds(splitter, d, R, f) ==
    Only({
        IF splitter = "best" THEN all
        ELSE {t \in all :
                Cardinality({u \in all : u < t}) = (Cardinality(all) - 1) \div 2}
        : all \in {all_thresholds(d, R, f)}})

left_of(d, R, f, threshold) == {i \in R : 2 * d.X[i][f + 1] <= threshold}

\* A position is skipped when a side would hold too few samples
position_valid(s, stL, stR) ==
    /\ stL.n_treated >= s.min_samples_leaf_treated
    /\ stR.n_treated >= s.min_samples_leaf_treated
    /\ stL.n_control >= s.min_samples_leaf_control
    /\ stR.n_control >= s.min_samples_leaf_control
    /\ stL.n >= s.min_samples_leaf
    /\ stR.n >= s.min_samples_leaf

\* The candidate split of R on the k-th drawn feature f at `threshold`
candidate(d, R, k, f, threshold) ==
    Only({
        [pos |-> k, feature |-> f, threshold |-> threshold,
         left |-> L, right |-> R \ L,
         stL |-> group_stats(d, L), stR |-> group_stats(d, R \ L)]
        : L \in {left_of(d, R, f, threshold)}})

\* The candidates of the drawn features that no leaf minimum rules out
valid_candidates(s, d, R, order) ==
    {c \in UNION {{candidate(d, R, k, order[k], t)
                      : t \in thresholds(s.splitter, d, R, order[k])}
                    : k \in 1..Len(order)}
        : position_valid(s, c.stL, c.stR)}

NoSplit(r) ==
    [found |-> FALSE, feature |-> -2, threshold |-> -2, left |-> {},
     right |-> {}, improvement |-> <<0, 1>>, r |-> r]

\* The candidate with the greatest proxy improvement (the least children
\* cost); among equals the first in draw order, then the lower threshold
best_candidate(s, ok) ==
    CHOOSE c \in ok : \A c2 \in ok :
        /\ ~frac_less(children_cost(s.criterion, c2.stL, c2.stR),
                      children_cost(s.criterion, c.stL, c.stR))
        /\ (c2 # c /\ ~frac_less(children_cost(s.criterion, c.stL, c.stR),
                                 children_cost(s.criterion, c2.stL, c2.stR)))
                => \/ c.pos < c2.pos
                   \/ (c.pos = c2.pos /\ c.threshold < c2.threshold)

\* The split the winning candidate gives, or no split if it would not
\* improve on the node
to_split(s, st, best, r) ==
    Only({
        IF imp[1] < 0 THEN NoSplit(r)
        ELSE [found |-> TRUE, feature |-> best.feature,
              threshold |-> best.threshold, left |-> best.left,
              right |-> best.right, improvement |-> imp, r |-> r]
        : imp \in {improvement(s.criterion, st, best.stL, best.stR)}})

\* Splitter.split_node over the range R, from rand_r state r
split_node(s, d, R, r) ==
    Only({
        Only({
            IF ok = {} THEN NoSplit(drawn.r)
            ELSE Only({to_split(s, group_stats(d, R), best, drawn.r)
                        : best \in {best_candidate(s, ok)}})
            : ok \in {valid_candidates(s, d, R, drawn.order)}})
        : drawn \in {draw_features(d, R, [k \in 1..n_features(d) |-> k - 1],
                                   n_features(d), s.max_features,
                                   [order |-> <<>>, r |-> r])}})

-----------------------------------------------------------------------------
(* Tree: a sequence of nodes; node id k is element k + 1.                   *)

\* A node is stored as a leaf; set_split turns it into a split node
leaf_node(st, depth) ==
    [is_leaf |-> TRUE, feature |-> -2, threshold |-> -2,
     left_child |-> -1, right_child |-> -1, depth |-> depth,
     n_node_samples |-> st.n, n_control |-> st.n_control,
     n_treated |-> st.n_treated,
     value |-> <<<<st.sum_control, st.n_control>>, <<st.sum_treated, st.n_treated>>>>]

\* Tree.add_node: append, wiring the parent's child slot if parent >= 0
add_node(tree, parent, is_left, node) ==
    LET id == Len(tree)
        wired == IF parent < 0 THEN tree
                 ELSE IF is_left
                      THEN [tree EXCEPT ![parent + 1].left_child = id]
                      ELSE [tree EXCEPT ![parent + 1].right_child = id]
    IN  Append(wired, node)

set_split(tree, id, sp) ==
    [tree EXCEPT ![id + 1].is_leaf = FALSE,
                 ![id + 1].feature = sp.feature,
                 ![id + 1].threshold = sp.threshold]

leaves(tree) == {k \in 1..Len(tree) : tree[k].is_leaf}

\* Tree.apply for one row: the value vector of the leaf the row reaches
RECURSIVE apply_row(_, _, _)
apply_row(tree, id, x) ==
    LET nd == tree[id + 1]
    IN  IF nd.is_leaf THEN nd.value
        ELSE IF 2 * x[nd.feature + 1] <= nd.threshold
             THEN apply_row(tree, nd.left_child, x)
             ELSE apply_row(tree, nd.right_child, x)

apply(tree, X) == [i \in 1..Len(X) |-> apply_row(tree, 0, X[i])]

-----------------------------------------------------------------------------
(* Tree builders.  b = [kind, max_depth, min_samples_split,                 *)
(* min_samples_leaf, min_samples_leaf_treated, min_samples_leaf_control,    *)
(* max_leaf_nodes]                                                          *)

\* A frontier entry becomes a leaf when it is too deep, too small or pure,
\* or when the splitter finds no split
evaluate(s, b, d, R, depth, r) ==
    Only({
        IF \/ depth >= b.max_depth
           \/ st.n < b.min_samples_split
           \/ st.n < 2 * b.min_samples_leaf
           \/ node_impurity(s.criterion, st)[1] = 0
        THEN NoSplit(r)
        ELSE split_node(s, d, R, r)
        : st \in {group_stats(d, R)}})

\* One pop of the depth-first stack: entry e gets node id Len(st.tree)
depth_first_step(d, st, e, sp) ==
    IF ~sp.found
    THEN [stack |-> SubSeq(st.stack, 1, Len(st.stack) - 1),
          tree |-> add_node(st.tree, e.parent, e.is_left,
                            leaf_node(group_stats(d, e.R), e.depth)),
          r |-> sp.r]
    ELSE [stack |-> SubSeq(st.stack, 1, Len(st.stack) - 1) \o
                <<[R |-> sp.right, depth |-> e.depth + 1,
                   parent |-> Len(st.tree), is_left |-> FALSE],
                  [R |-> sp.left, depth |-> e.depth + 1,
                   parent |-> Len(st.tree), is_left |-> TRUE]>>,
          tree |-> set_split(add_node(st.tree, e.parent, e.is_left,
                                      leaf_node(group_stats(d, e.R), e.depth)),
                             Len(st.tree), sp),
          r |-> sp.r]

\* DepthFirstTreeBuilder: st = [stack, tree, r]; the top of the stack is
\* its last element
RECURSIVE depth_first(_, _, _, _)
depth_first(s, b, d, st0) ==
    Only({
        IF Len(st.stack) = 0 THEN st
        ELSE Only({
            Only({depth_first(s, b, d, depth_first_step(d, st, e, sp))
                    : sp \in {evaluate(s, b, d, e.R, e.depth, st.r)}})
            : e \in {st.stack[Len(st.stack)]}})
        : st \in {st0}})

\* The queued candidate with the greatest improvement; among equals the
\* oldest node
best_queued(queue) ==
    CHOOSE c \in queue : \A c2 \in queue :
        /\ ~frac_less(c.sp.improvement, c2.sp.improvement)
        /\ ~frac_less(c2.sp.improvement, c.sp.improvement) => c.id <= c2.id

\* Candidate c becomes a split node; its children, evaluated as spL and
\* spR, get the next two ids and are queued if they can be split
best_first_step(d, st, c, spL, spR) ==
    [queue |-> (st.queue \ {c})
            \cup (IF spL.found
                  THEN {[id |-> Len(st.tree), depth |-> c.depth + 1, sp |-> spL]}
                  ELSE {})
            \cup (IF spR.found
                  THEN {[id |-> Len(st.tree) + 1, depth |-> c.depth + 1, sp |-> spR]}
                  ELSE {}),
     tree |-> add_node(
                add_node(set_split(st.tree, c.id, c.sp), c.id, TRUE,
                         leaf_node(group_stats(d, c.sp.left), c.depth + 1)),
                c.id, FALSE,
                leaf_node(group_stats(d, c.sp.right), c.depth + 1)),
     r |-> spR.r]

\* BestFirstTreeBuilder: st = [queue, tree, r]; the queue holds the
\* candidate splits [id, depth, sp] of nodes already in the tree
RECURSIVE best_first(_, _, _, _)
best_first(s, b, d, st0) ==
    Only({
        IF st.queue = {} \/ Cardinality(leaves(st.tree)) >= b.max_leaf_nodes
        THEN st
        ELSE Only({
            Only({
                Only({best_first(s, b, d, best_first_step(d, st, c, spL, spR))
                        : spR \in {evaluate(s, b, d, c.sp.right, c.depth + 1, spL.r)}})
                : spL \in {evaluate(s, b, d, c.sp.left, c.depth + 1, st.r)}})
            : c \in {best_queued(st.queue)}})
        : st \in {st0}})

\* The root of a best-first build, queued if it can be split
best_first_root(d, sp) ==
    [queue |-> IF sp.found THEN {[id |-> 0, depth |-> 0, sp |-> sp]} ELSE {},
     tree |-> add_node(<<>>, -1, FALSE,
                       leaf_node(group_stats(d, 1..n_samples(d)), 0)),
     r |-> sp.r]

\* builder.build(tree_, X, y, w, groups) from generator state `state`:
\* the nodes of the finished tree and the generator's next state
build(s, b, d, state) ==
    Only({
        IF b.kind = "DepthFirstTreeBuilder"
        THEN [nodes |-> depth_first(s, b, d,
                          [stack |-> <<[R |-> 1..n_samples(d), depth |-> 0,
                                        parent |-> -1, is_left |-> FALSE]>>,
                           tree |-> <<>>, r |-> seed.value]).tree,
              state |-> seed.state]
        ELSE [nodes |-> Only({best_first(s, b, d, best_first_root(d, sp))
                                : sp \in {evaluate(s, b, d, 1..n_samples(d), 0,
                                                   seed.value)}}).tree,
              state |-> seed.state]
        : seed \in {randint(state)}})

-----------------------------------------------------------------------------
(* fit: collaborators, lines 106-137 *)

\* an int seed ignored: numpy's global generator used instead
check_random_state_unseeded(seed, generators) ==
    IF seed.t = "RandomState" THEN [which |-> "instance", state |-> generators.instance]
    ELSE [which |-> "global", state |-> generators.global]

\* line 106, check_random_state: None is numpy's global generator, an int
\* seeds a new generator, a RandomState instance is used as it is
check_random_state(seed, generators) ==
    IF seed.t = "None" THEN [which |-> "global", state |-> generators.global]
    ELSE IF seed.t = "int" THEN [which |-> "new", state |-> seed.v % RngMod]
    ELSE [which |-> "instance", state |-> generators.instance]

\* the control minimum passed for both groups
splitter_args_control_twice(p, n_features_in_) ==
    [made |-> TRUE,
     splitter |-> p.splitter,
     criterion |-> p.criterion,
     min_samples_leaf |-> min_samples_leaf(p),
     min_samples_leaf_treated |-> min_samples_leaf_control(p),
     min_samples_leaf_control |-> min_samples_leaf_control(p),
     max_features |-> max_features(p, n_features_in_)]

\* lines 113-118
splitter_args(p, n_features_in_) ==
    [made |-> TRUE,
     splitter |-> p.splitter,
     criterion |-> p.criterion,
     min_samples_leaf |-> min_samples_leaf(p),
     min_samples_leaf_treated |-> min_samples_leaf_treated(p),
     min_samples_leaf_control |-> min_samples_leaf_control(p),
     max_features |-> max_features(p, n_features_in_)]

\* depth-first chosen for zero as well
builder_kind_zero_depth_first(p) ==
    IF max_leaf_nodes(p) <= 0 THEN "DepthFirstTreeBuilder"
    ELSE "BestFirstTreeBuilder"

\* lines 121-135
builder_kind(p) ==
    IF max_leaf_nodes(p) < 0 THEN "DepthFirstTreeBuilder"
    ELSE "BestFirstTreeBuilder"

builder_args(p) ==
    [kind |-> builder_kind(p),
     max_depth |-> max_depth(p),
     min_samples_split |-> min_samples_split(p),
     min_samples_leaf |-> min_samples_leaf(p),
     min_samples_leaf_treated |-> min_samples_leaf_treated(p),
     min_samples_leaf_control |-> min_samples_leaf_control(p),
     max_leaf_nodes |-> max_leaf_nodes(p)]

no_splitter ==
    [made |-> FALSE, splitter |-> "", criterion |-> "", min_samples_leaf |-> 0,
     min_samples_leaf_treated |-> 0, min_samples_leaf_control |-> 0,
     max_features |-> 0]

no_builder ==
    [kind |-> "", max_depth |-> 0, min_samples_split |-> 0,
     min_samples_leaf |-> 0, min_samples_leaf_treated |-> 0,
     min_samples_leaf_control |-> 0, max_leaf_nodes |-> 0]

\* What the last call did: the exception it raised ("none" if it returned),
\* whether it reached line 120, what it constructed, how often it called
\* build, the data it was given, whether it was a fit directly after a fit
\* that returned for the same data, and what it returned
no_call ==
    [op |-> "", raised |-> "none", tree_created |-> FALSE,
     splitter |-> no_splitter, builder |-> no_builder, build_calls |-> 0,
     data |-> <<>>, refit |-> FALSE, result |-> <<>>]

-----------------------------------------------------------------------------
(* State *)

\* The estimator after __init__: no attribute ending in "_" is set
unfitted == [n_features_in_ |-> NoneV, tree_ |-> NoneV]

Tree(nodes) == [t |-> "Tree", nodes |-> nodes]

TypeOK ==
    /\ self.tree_.t \in {"None", "Tree"}
    /\ self.n_features_in_.t \in {"None", "int"}
    /\ rng.global \in 0..(RngMod - 1)
    /\ rng.instance \in 0..(RngMod - 1)
    /\ fitted \in BOOLEAN

\* __init__ with its arguments drawn from the domain D of each parameter
Init_(D) ==
    /\ params \in [is_classifier : D.is_classifier,
                   criterion : D.criterion,
                   splitter : D.splitter,
                   max_depth : D.max_depth,
                   min_samples_split : D.min_samples_split,
                   min_samples_leaf : D.min_samples_leaf,
                   min_samples_leaf_treated : D.min_samples_leaf_treated,
                   min_samples_leaf_control : D.min_samples_leaf_control,
                   max_features : D.max_features,
                   max_leaf_nodes : D.max_leaf_nodes,
                   random_state : D.random_state]
    /\ self = unfitted
    /\ rng = [global |-> 0, instance |-> 0]
    /\ last = no_call
    /\ fitted = FALSE

\* set_params(name=value)
set_params(name, value) ==
    /\ params' = [params EXCEPT ![name] = value]
    /\ last' = [no_call EXCEPT !.op = "set_params"]
    /\ UNCHANGED <<self, rng, fitted>>

\* Tree() assigned at the top of fit, before anything is validated
tree_before_validation(est, d) ==
    [n_features_in_ |-> IntV(n_features(d)), tree_ |-> Tree(<<>>)]

\* lines 50-51: the estimator once _validate_data(..., reset=True) has
\* returned; nothing else is assigned before line 120
after_validate_data(est, d) ==
    [est EXCEPT !.n_features_in_ = IntV(n_features(d))]

\* fit(X, y, w), lines 49-139.  build_raises: whether builder.build raises
Fit(d, build_raises) ==
    IF ~valid_data(d) THEN
        /\ last' = [no_call EXCEPT !.op = "fit", !.data = d,
                                   !.raised = "ValueError(_validate_data)"]
        /\ UNCHANGED <<params, self, rng, fitted>>
    ELSE IF fit_raises(params) # "none" THEN
        /\ self' = after_validate_data(self, d)
        /\ last' = [no_call EXCEPT !.op = "fit", !.data = d,
                                   !.raised = fit_raises(params)]
        /\ UNCHANGED <<params, rng, fitted>>
    ELSE
        \E random_state \in {check_random_state(params.random_state, rng)},
           s \in {splitter_args(params, n_features(d))},
           b \in {builder_args(params)} :
            IF build_raises THEN
                /\ self' = [after_validate_data(self, d) EXCEPT !.tree_ = Tree(<<>>)]
                /\ last' = [no_call EXCEPT !.op = "fit", !.data = d,
                                           !.tree_created = TRUE,
                                           !.splitter = s, !.builder = b,
                                           !.build_calls = 1,
                                           !.raised = "build"]
                /\ UNCHANGED <<params, rng, fitted>>
            ELSE
                \E built \in {build(s, b, d, random_state.state)} :
                    /\ self' = [after_validate_data(self, d) EXCEPT
                                    !.tree_ = Tree(built.nodes)]
                    /\ rng' = IF random_state.which = "global"
                              THEN [rng EXCEPT !.global = built.state]
                              ELSE IF random_state.which = "instance"
                              THEN [rng EXCEPT !.instance = built.state]
                              ELSE rng
                    /\ last' = [no_call EXCEPT !.op = "fit", !.data = d,
                                               !.tree_created = TRUE,
                                               !.splitter = s, !.builder = b,
                                               !.build_calls = 1,
                                               !.refit = /\ last.op = "fit"
                                                         /\ last.raised = "none"
                                                         /\ last.data = d]
                    /\ fitted' = TRUE
                    /\ UNCHANGED params

\* check_is_fitted(self): some attribute ending in "_" is set
is_fitted(est) == est.n_features_in_.t # "None" \/ est.tree_.t # "None"

\* predict(X), lines 141-148
Predict(X) ==
    /\ last' = [no_call EXCEPT
            !.op = "predict",
            !.raised =
                IF ~is_fitted(self) THEN "NotFittedError"
                ELSE IF ~valid_rows(X, self.n_features_in_.v)
                    THEN "ValueError(_validate_data)"
                ELSE IF self.tree_.t = "None" THEN "AttributeError(tree_)"
                ELSE IF Len(self.tree_.nodes) = 0 THEN "undefined(empty tree)"
                ELSE "none",
            !.result =
                IF /\ is_fitted(self)
                   /\ valid_rows(X, self.n_features_in_.v)
                   /\ self.tree_.t = "Tree"
                   /\ Len(self.tree_.nodes) > 0
                THEN apply(self.tree_.nodes, X)
                ELSE <<>>]
    /\ UNCHANGED <<params, self, rng, fitted>>

-----------------------------------------------------------------------------
(* Inputs *)

\* n rows over two features: feature 0 is the row number, feature 1 its
\* parity
rows(n) == [i \in 1..n |-> <<i, i % 2>>]

\* Outcomes: all zero, or one exactly for the treated rows
outcomes(n, w) == {[i \in 1..n |-> 0], [i \in 1..n |-> w[i]]}

DataGrow ==
    UNION {UNION {{[X |-> rows(n), y |-> y, w |-> w] : y \in outcomes(n, w)}
                    : w \in [1..n -> {0, 1}]}
              : n \in 0..MaxSamples}

\* One control row of p features, for every width p; and no row at all
DataWide ==
    {[X |-> <<[f \in 1..p |-> 0]>>, y |-> <<0>>, w |-> <<0>>] : p \in 1..MaxFeatures}
        \cup {[X |-> <<>>, y |-> <<>>, w |-> <<>>]}

DataSmall ==
    {[X |-> <<>>, y |-> <<>>, w |-> <<>>],
     [X |-> <<<<0>>>>, y |-> <<1>>, w |-> <<1>>],
     [X |-> rows(4), y |-> <<0, 1, 0, 1>>, w |-> <<0, 1, 0, 1>>]}

\* Four rows, the outcome one exactly for the treated rows
DataSeed == {[X |-> rows(4), y |-> w, w |-> w] : w \in [1..4 -> {0, 1}]}

\* The constructor's parameters, one value each
Fixed ==
    [is_classifier |-> {TRUE},
     criterion |-> {"delta_delta_p"},
     splitter |-> {"best"},
     max_depth |-> {NoneV},
     min_samples_split |-> {2},
     min_samples_leaf |-> {NoneV},
     min_samples_leaf_treated |-> {1},
     min_samples_leaf_control |-> {1},
     max_features |-> {NoneV},
     max_leaf_nodes |-> {NoneV},
     random_state |-> {IntV(0)}]

-----------------------------------------------------------------------------
(* Lifecycle: estimators that differ in what fit validates *)

D_life ==
    [Fixed EXCEPT !.is_classifier = BOOLEAN,
                  !.criterion = {"delta_delta_p", "euclidean_divergence"},
                  !.splitter = {"best", "random"},
                  !.min_samples_leaf = {NoneV, IntV(1)},
                  !.min_samples_leaf_treated = {1, 2},
                  !.max_features = {NoneV, IntV(0), StrV("half")}]

Init == Init_(D_life)

Next ==
    \/ \E name \in DOMAIN D_life : \E value \in D_life[name] :
            set_params(name, value)
    \/ \E d \in DataSmall : \E build_raises \in BOOLEAN : Fit(d, build_raises)
    \/ \E d \in DataSmall : Predict(d.X)

Spec == Init /\ [][Next]_vars

\* The exceptions fit raises for its configuration, lines 58-113
ConfigErrors ==
    {"ValueError(min_samples_split)", "ValueError(min_samples_leaf_treated)",
     "ValueError(min_samples_leaf_control)", "ValueError(min_samples_leaf)",
     "ValueError(Invalid value for min_samples_leaf)",
     "ValueError(Invalid value for max_features)",
     "KeyError(criterion)", "KeyError(splitter)"}

\* C1: predict is rejected as not fitted unless an earlier fit on the
\* estimator returned
C1_PredictNotFittedUnlessFitReturned ==
    (last.op = "predict" /\ ~fitted) => last.raised = "NotFittedError"

\* C2: a fit that raises for its configuration raises before the Tree is
\* created and before build is called, and leaves tree_ as it was
C2_ConfigErrorLeavesTree ==
    /\ [](last.op = "fit" /\ last.raised \in ConfigErrors
            => ~last.tree_created /\ last.build_calls = 0)
    /\ [][last'.op = "fit" /\ last'.raised \in ConfigErrors
            => self'.tree_ = self.tree_]_vars

\* a fit rejected for its splitter name, on an estimator holding a grown tree
C2_Witness ==
    /\ last.op = "fit"
    /\ last.raised = "KeyError(splitter)"
    /\ self.tree_.t = "Tree"
    /\ Len(self.tree_.nodes) = 3

-----------------------------------------------------------------------------
(* Leaf and split minimums *)

D_leaf ==
    [Fixed EXCEPT !.min_samples_split = 0..MaxSplitMin,
                  !.min_samples_leaf = {NoneV} \cup {IntV(n) : n \in 0..(MaxLeafMin + 1)},
                  !.min_samples_leaf_treated = 0..MaxLeafMin,
                  !.min_samples_leaf_control = 0..MaxLeafMin]

InitLeaf == Init_(D_leaf)

NextLeaf ==
    \/ \E name \in DOMAIN D_leaf : \E value \in D_leaf[name] :
            set_params(name, value)
    \/ \E d \in DataSmall : \E build_raises \in BOOLEAN : Fit(d, build_raises)
    \/ \E d \in DataSmall : Predict(d.X)

SpecLeaf == InitLeaf /\ [][NextLeaf]_vars

\* C3: the min_samples_leaf handed to the splitter and the builder is at
\* least each group minimum; omitted, it is their sum; given and below
\* either, fit raises for its configuration instead of building
C3_LeafMinimumCoversGroups ==
    /\ (last.op = "fit" /\ last.splitter.made) =>
        /\ last.splitter.min_samples_leaf >= params.min_samples_leaf_treated
        /\ last.splitter.min_samples_leaf >= params.min_samples_leaf_control
        /\ last.builder.min_samples_leaf = last.splitter.min_samples_leaf
        /\ last.splitter.min_samples_leaf_treated = params.min_samples_leaf_treated
        /\ last.splitter.min_samples_leaf_control = params.min_samples_leaf_control
        /\ params.min_samples_leaf.t = "None" =>
                last.splitter.min_samples_leaf =
                    params.min_samples_leaf_treated + params.min_samples_leaf_control
    /\ (/\ last.op = "fit"
        /\ last.raised # "ValueError(_validate_data)"
        /\ params.min_samples_leaf.t = "int"
        /\ \/ params.min_samples_leaf.v < params.min_samples_leaf_treated
           \/ params.min_samples_leaf.v < params.min_samples_leaf_control) =>
        /\ last.raised \in ConfigErrors
        /\ ~last.splitter.made
        /\ last.builder.kind = ""

\* a fit that built with min_samples_leaf omitted and unequal group minimums
C3_Witness ==
    /\ last.op = "fit"
    /\ last.raised = "none"
    /\ params.min_samples_leaf.t = "None"
    /\ params.min_samples_leaf_treated = 1
    /\ params.min_samples_leaf_control = 2
    /\ last.splitter.min_samples_leaf = 3
    /\ last.builder.min_samples_leaf = 3

\* C6: the builder's min_samples_split is the greater of the user's value
\* and twice the effective min_samples_leaf
C6_SplitMinimumFloored ==
    (last.op = "fit" /\ last.builder.kind # "") =>
        /\ last.builder.min_samples_split =
            Max(params.min_samples_split,
                2 * (IF params.min_samples_leaf.t = "None"
                     THEN params.min_samples_leaf_treated
                            + params.min_samples_leaf_control
                     ELSE params.min_samples_leaf.v))
        /\ last.builder.min_samples_split >= 2 * last.builder.min_samples_leaf

\* a fit whose min_samples_split of 1 was raised to twice a leaf minimum of 2
C6_Witness ==
    /\ last.op = "fit"
    /\ last.raised = "none"
    /\ params.min_samples_split = 1
    /\ params.min_samples_leaf = IntV(2)
    /\ last.builder.min_samples_split = 4

-----------------------------------------------------------------------------
(* max_features *)

D_feat ==
    [Fixed EXCEPT !.is_classifier = BOOLEAN,
                  !.max_features =
                        {NoneV}
                        \cup {StrV(name) : name \in {"auto", "sqrt", "log2", "half"}}
                        \cup {IntV(n) : n \in -1..(MaxFeatures + 1)}
                        \cup {FloatV(num) : num \in -1..(FracDen + 1)}]

InitFeat == Init_(D_feat)

NextFeat ==
    \/ \E name \in DOMAIN D_feat : \E value \in D_feat[name] :
            set_params(name, value)
    \/ \E d \in DataWide : \E build_raises \in BOOLEAN : Fit(d, build_raises)
    \/ \E d \in DataWide : Predict(d.X)

SpecFeat == InitFeat /\ [][NextFeat]_vars

\* An integer count outside 1..n, or a fraction outside (0, 1]
max_features_out_of_range(mf, n) ==
    \/ mf.t = "int" /\ (mf.v < 1 \/ mf.v > n)
    \/ mf.t = "float" /\ (mf.v <= 0 \/ mf.v > FracDen)

\* C4: fit rejects an out-of-range max_features as a configuration error
\* and constructs neither the splitter nor the builder with it
C4_OutOfRangeMaxFeaturesRejected ==
    (/\ last.op = "fit"
     /\ last.raised # "ValueError(_validate_data)"
     /\ max_features_out_of_range(params.max_features, n_features(last.data))) =>
        /\ last.raised \in ConfigErrors
        /\ ~last.splitter.made
        /\ last.builder.kind = ""

\* The claimed max_features for n >= 1 features; positive_only: a fraction
\* that is not positive gives 0
max_features_claimed(mf, is_classifier, n, value, positive_only) ==
    LET sqrt_value == \E k \in 0..n :
            k * k <= n /\ n < (k + 1) * (k + 1) /\ value = Max(1, k)
        log2_value == \E k \in 0..n :
            pow2(k) <= n /\ n < pow2(k + 1) /\ value = Max(1, k)
    IN  CASE mf.t = "None" -> value = n
          [] mf.t = "int" -> value = mf.v
          [] mf.t = "float" ->
                IF positive_only /\ mf.v <= 0 THEN value = 0
                ELSE value = Max(1, (mf.v * n) \div FracDen)
          [] mf.t = "str" /\ mf.v = "sqrt" -> sqrt_value
          [] mf.t = "str" /\ mf.v = "log2" -> log2_value
          [] mf.t = "str" /\ mf.v = "auto" ->
                IF is_classifier THEN sqrt_value ELSE value = n
          [] OTHER -> FALSE

max_features_resolved(positive_only) ==
    /\ (last.op = "fit" /\ last.splitter.made) =>
            max_features_claimed(params.max_features, params.is_classifier,
                                 n_features(last.data),
                                 last.splitter.max_features, positive_only)
    /\ (/\ last.op = "fit"
        /\ last.raised # "ValueError(_validate_data)"
        /\ params.max_features.t = "str"
        /\ params.max_features.v \notin {"auto", "sqrt", "log2"}) =>
            last.raised \in ConfigErrors /\ ~last.splitter.made

\* C10 as claimed: every fraction f resolves to max(1, floor(f * n_features))
C10_MaxFeaturesResolution_AnyFraction == max_features_resolved(FALSE)

\* What lines 84-104 do: as claimed, but a fraction that is not positive
\* resolves to 0
MaxFeaturesResolutionOfCode == max_features_resolved(TRUE)

-----------------------------------------------------------------------------
(* Growth strategy and leaf cap *)

PredictRows == {rows(n) : n \in 0..MaxSamples}

D_cap ==
    [Fixed EXCEPT !.max_leaf_nodes =
                        {NoneV} \cup {IntV(n) : n \in -2..MaxLeafNodes}]

InitCap == Init_(D_cap)

NextCap ==
    \/ \E name \in DOMAIN D_cap : \E value \in D_cap[name] :
            set_params(name, value)
    \/ \E d \in DataGrow : \E build_raises \in BOOLEAN : Fit(d, build_raises)
    \/ \E X \in PredictRows : Predict(X)

SpecCap == InitCap /\ [][NextCap]_vars

\* Exactly one builder is constructed and its build is called once:
\* depth-first when max_leaf_nodes is unset or negative, best-first at or
\* above `least`
builder_selected(least) ==
    (last.op = "fit" /\ last.tree_created) =>
        /\ last.builder.kind \in {"DepthFirstTreeBuilder", "BestFirstTreeBuilder"}
        /\ last.builder.kind = "DepthFirstTreeBuilder" <=>
                \/ params.max_leaf_nodes.t = "None"
                \/ params.max_leaf_nodes.v < 0
        /\ last.builder.kind = "BestFirstTreeBuilder" <=>
                /\ params.max_leaf_nodes.t = "int"
                /\ params.max_leaf_nodes.v >= least
        /\ last.builder.kind = "BestFirstTreeBuilder" =>
                last.builder.max_leaf_nodes = params.max_leaf_nodes.v
        /\ last.build_calls = 1

C8_LeafCountCapped ==
    (/\ last.op = "fit"
     /\ last.raised = "none"
     /\ last.builder.kind = "BestFirstTreeBuilder") =>
        Cardinality(leaves(self.tree_.nodes)) <= last.builder.max_leaf_nodes

-----------------------------------------------------------------------------
(* Group minimums of the leaves *)

D_min ==
    [Fixed EXCEPT !.min_samples_leaf = {NoneV, IntV(1), IntV(2)},
                  !.min_samples_leaf_treated = {1, 2},
                  !.min_samples_leaf_control = {1, 2}]

InitMin == Init_(D_min)

NextMin ==
    \/ \E name \in DOMAIN D_min : \E value \in D_min[name] :
            set_params(name, value)
    \/ \E d \in DataGrow : Fit(d, FALSE)
    \/ \E X \in PredictRows : Predict(X)

SpecMin == InitMin /\ [][NextMin]_vars

\* Every leaf with node id >= first holds at least min_samples_leaf_treated
\* treated and min_samples_leaf_control control samples
leaves_hold_minimums(first) ==
    (last.op = "fit" /\ last.raised = "none") =>
        \A k \in leaves(self.tree_.nodes) :
            k > first =>
                /\ self.tree_.nodes[k].n_treated >= params.min_samples_leaf_treated
                /\ self.tree_.nodes[k].n_control >= params.min_samples_leaf_control

\* C9 as claimed: every leaf, the root included
C9_LeavesHoldMinimums_Root == leaves_hold_minimums(0)

\* C9 amended: every leaf other than the root of a fitted tree holds at
\* least min_samples_leaf_treated treated and min_samples_leaf_control
\* control samples
C9_LeavesHoldMinimums == leaves_hold_minimums(1)

\* a fitted tree whose root was split into two leaves
C9_Witness ==
    /\ last.op = "fit"
    /\ last.raised = "none"
    /\ Len(self.tree_.nodes) = 3
    /\ leaves(self.tree_.nodes) = {2, 3}

-----------------------------------------------------------------------------
(* Random state *)

D_seed ==
    [Fixed EXCEPT !.max_features = {NoneV, IntV(1)},
                  !.random_state = {NoneV, [t |-> "RandomState"]}
                                       \cup {IntV(n) : n \in 0..MaxSeed}]

InitSeed == Init_(D_seed)

NextSeed ==
    \/ \E name \in DOMAIN D_seed : \E value \in D_seed[name] :
            set_params(name, value)
    \/ \E d \in DataSeed : \E build_raises \in BOOLEAN : Fit(d, build_raises)
    \/ \E d \in DataSeed : Predict(d.X)

SpecSeed == InitSeed /\ [][NextSeed]_vars

\* A fit that returns directly after a fit that returned, for the same
\* data and parameters, leaves the same tree, hence the same predictions;
\* forms: the forms of random_state this is said of
refit_same_tree(forms) ==
    (/\ last.op = "fit" /\ last.raised = "none"
     /\ last'.op = "fit" /\ last'.raised = "none"
     /\ last'.data = last.data
     /\ params.random_state.t \in forms)
        => /\ self'.tree_ = self.tree_
           /\ apply(self'.tree_.nodes, last.data.X)
                = apply(self.tree_.nodes, last.data.X)

====
